---------------------------- MODULE Spec2Model ----------------------------
(***************************************************************************)
(* EduBias: the remote call client (openai_client.chat_completion) and the *)
(* batch orchestrator (process_pdfs.main).                                 *)
(*                                                                         *)
(* Python strings are sequences of one-character strings, so that slicing, *)
(* find/rfind, strip and concatenation are computed as the code computes   *)
(* them.  An optional string (None or a str) is a sequence of at most one  *)
(* string: << >> is None, << s >> is the string s.                          *)
(***************************************************************************)
EXTENDS Integers, Sequences, FiniteSets, TLC

(***************************************************************************)
(* Bounds of the model.                                                    *)
(***************************************************************************)
MaxPromptLen == 2
MaxTruncate == 1
MaxRetries == 2
MaxBackoff == 1
MaxPdfs == 2
\* the longest 'biases' string of the replies whose repair is checked
MaxBiasLen == 4

(***************************************************************************)
(* Program constants.                                                      *)
(***************************************************************************)
DefaultRetries == 3
DefaultBackoffFactor == 1
DefaultTruncateChars == 2000

\* "\n\n...<TRUNCATED>..."
TRUNCATED_MARKER ==
    <<"\n", "\n", ".", ".", ".", "<", "T", "R", "U", "N", "C", "A", "T", "E",
      "D", ">", ".", ".", ".">>

\* config['prompt'] of config.json, a fixed instruction text
ConfigPrompt == <<"Q">>

\* "\n\nPDF <2 CJK characters>:\n"; the two CJK characters are written w and b
PROMPT_SEPARATOR ==
    <<"\n", "\n", "P", "D", "F", " ", "w", "b", ":", "\n">>

(***************************************************************************)
(* Python str and list primitives.                                         *)
(***************************************************************************)
Range(s) == {s[k] : k \in 1..Len(s)}

\* the element of a one-element set; {e(x) : x \in {v}} names the value v
\* as x within e, as a local variable of the code names a computed value
TheOne(S) == CHOOSE x \in S : TRUE

Whitespace == {" ", "\n", "\t", "\r"}

Max(a, b) == IF a >= b THEN a ELSE b
Min(a, b) == IF a <= b THEN a ELSE b

RECURSIVE Pow2(_)
Pow2(n) == IF n <= 0 THEN 1 ELSE 2 * Pow2(n - 1)

\* s[lo:hi] with 0-based, end-exclusive, non-negative indices
Slice(s, lo, hi) == SubSeq(s, Min(lo, Len(s)) + 1, Min(hi, Len(s)))

\* a possibly negative index of s[:n] or s[n:], clamped as Python clamps it
PyIndex(s, n) == IF n < 0 THEN Max(Len(s) + n, 0) ELSE Min(n, Len(s))

\* s[:n]
Prefix(s, n) == Slice(s, 0, PyIndex(s, n))

\* s.strip()
Strip(s) ==
    LET keep == {k \in 1..Len(s) : s[k] \notin Whitespace}
    IN  IF keep = {} THEN << >>
        ELSE LET lo == CHOOSE k \in keep : \A j \in keep : k <= j
                 hi == CHOOSE k \in keep : \A j \in keep : k >= j
             IN  SubSeq(s, lo, hi)

\* s.startswith(p), s.endswith(p)
StartsWith(s, p) == Len(s) >= Len(p) /\ SubSeq(s, 1, Len(p)) = p
EndsWith(s, p) == Len(s) >= Len(p) /\ SubSeq(s, Len(s) - Len(p) + 1, Len(s)) = p

\* s.find(c), s.rfind(c) for a one-character c: 0-based, -1 when absent
Find(s, c) ==
    LET at == {k \in 1..Len(s) : s[k] = c}
    IN  IF at = {} THEN -1 ELSE (CHOOSE k \in at : \A j \in at : k <= j) - 1
RFind(s, c) ==
    LET at == {k \in 1..Len(s) : s[k] = c}
    IN  IF at = {} THEN -1 ELSE (CHOOSE k \in at : \A j \in at : k >= j) - 1

\* sep.join(parts)
RECURSIVE Join(_, _)
Join(parts, sep) ==
    IF parts = << >> THEN << >>
    ELSE IF Len(parts) = 1 THEN parts[1]
    ELSE parts[1] \o sep \o Join(Tail(parts), sep)

\* all strings over alphabet of length at most n
RECURSIVE StringsUpTo(_, _)
StringsUpTo(alphabet, n) ==
    IF n = 0 THEN {<< >>}
    ELSE LET shorter == StringsUpTo(alphabet, n - 1)
         IN  shorter \cup {<<c>> \o s : c \in alphabet, s \in {t \in shorter : Len(t) = n - 1}}


(***************************************************************************)
(* Sample reply texts of the remote service.  The backquote of a Markdown   *)
(* fence is written @, since a TLA+ string cannot hold a backquote.        *)
(***************************************************************************)
\* {}
REPLY_EMPTY_OBJECT == <<"{", "}">>

\* @@@json\n{"filename": "z", "biases": "x, y"}\n@@@
REPLY_FENCED_JSON ==
    <<"@", "@", "@", "j", "s", "o", "n", "\n",
      "{", "\"", "f", "i", "l", "e", "n", "a", "m", "e", "\"", ":", " ",
      "\"", "z", "\"", ",", " ",
      "\"", "b", "i", "a", "s", "e", "s", "\"", ":", " ",
      "\"", "x", ",", " ", "y", "\"", "}", "\n", "@", "@", "@">>

\* @@@{"biases": ["x"]}@@@
REPLY_FENCED_PLAIN ==
    <<"@", "@", "@", "{", "\"", "b", "i", "a", "s", "e", "s", "\"", ":", " ",
      "[", "\"", "x", "\"", "]", "}", "@", "@", "@">>

\* no
REPLY_PROSE == <<"n", "o">>

\* @@@no@@@
REPLY_FENCED_PROSE == <<"@", "@", "@", "n", "o", "@", "@", "@">>

\* ok {x}
REPLY_BAD_OBJECT == <<"o", "k", " ", "{", "x", "}">>

\* }{
REPLY_REVERSED == <<"}", "{">>

\* a single blank
REPLY_BLANK == <<" ">>

(***************************************************************************)
(* The remote service's responses.  A response body is the dict returned   *)
(* by resp.json() (or the SDK's response): its 'choices' value and its     *)
(* top-level 'error' value.  A 'choices' value is absent ("none"), a list  *)
(* of choice entries, or a dict with the given keys.  A choice entry is a  *)
(* dict or not; its 'message' is absent, a dict or something else; every   *)
(* text field is an optional string.                                       *)
(***************************************************************************)
NoMessage == [present |-> FALSE, isdict |-> FALSE, content |-> << >>, text |-> << >>]

MessageChoice(content, text) ==
    [isdict |-> TRUE,
     message |-> [present |-> TRUE, isdict |-> TRUE, content |-> content, text |-> text],
     text |-> << >>, content |-> << >>]

FlatChoice(text, content) ==
    [isdict |-> TRUE, message |-> NoMessage, text |-> text, content |-> content]

NonDictChoice ==
    [isdict |-> FALSE, message |-> NoMessage, text |-> << >>, content |-> << >>]

ChoiceList(items) == [kind |-> "list", items |-> items, keys |-> {}, error |-> << >>]
ChoiceDict(keys, error) == [kind |-> "dict", items |-> << >>, keys |-> keys, error |-> error]
NoChoices == [kind |-> "none", items |-> << >>, keys |-> {}, error |-> << >>]

Body(choices, error) == [choices |-> choices, error |-> error]

ERROR_MESSAGE == <<"e">>

Bodies ==
    { Body(ChoiceList(<<MessageChoice(<<REPLY_EMPTY_OBJECT>>, << >>)>>), << >>),
      Body(ChoiceList(<<MessageChoice(<< >>, <<REPLY_FENCED_JSON>>)>>), << >>),
      Body(ChoiceList(<<FlatChoice(<<REPLY_FENCED_PLAIN>>, << >>)>>), << >>),
      Body(ChoiceList(<<FlatChoice(<< >>, <<REPLY_PROSE>>)>>), << >>),
      Body(ChoiceList(<<FlatChoice(<< >>, <<REPLY_FENCED_PROSE>>)>>), << >>),
      Body(ChoiceList(<<MessageChoice(<<REPLY_BAD_OBJECT>>, << >>)>>), << >>),
      Body(ChoiceList(<<FlatChoice(<<REPLY_REVERSED>>, << >>)>>), << >>),
      Body(ChoiceList(<<MessageChoice(<<REPLY_BLANK>>, << >>)>>), << >>),
      Body(ChoiceList(<<MessageChoice(<< << >> >>, << >>)>>), << >>),
      Body(ChoiceList(<<NonDictChoice,
                        FlatChoice(<< <<"{">> >>, << >>),
                        MessageChoice(<< >>, << <<"}">> >>)>>), << >>),
      Body(ChoiceList(<< >>), << >>),
      Body(NoChoices, <<ERROR_MESSAGE>>),
      Body(ChoiceDict({"error"}, <<ERROR_MESSAGE>>), << >>),
      Body(ChoiceDict({"detail"}, << >>), << >>) }

\* what one transport call yields: it raises, or it returns a response body
Outcomes ==
    {[raises |-> TRUE, body |-> Body(NoChoices, << >>)]}
        \cup {[raises |-> FALSE, body |-> b] : b \in Bodies}

(***************************************************************************)
(* chat_completion: its pure parts.                                        *)
(***************************************************************************)
\* an Optional[int]
NoneInt == [isNone |-> TRUE, n |-> 0]
SomeInt(n) == [isNone |-> FALSE, n |-> n]

\* Python truth value of an optional string (None and "" are false)
Truthy(opt) == opt # << >> /\ opt[1] # << >>

\* a or b, for optional strings
Or(a, b) == IF Truthy(a) THEN a ELSE b

\* mutant: the cut text is sent without the marker
TruncateNoMarker(p, truncate) ==
    IF ~truncate.isNone /\ truncate.n # 0 /\ Len(p) > truncate.n
    THEN Prefix(p, truncate.n)
    ELSE p

\* mutant: the slice keeps one character too many
TruncateOneMore(p, truncate) ==
    IF ~truncate.isNone /\ truncate.n # 0 /\ Len(p) > truncate.n
    THEN Prefix(p, truncate.n + 1) \o TRUNCATED_MARKER
    ELSE p

\* lines 90-92: the text sent as the user message
Truncate(p, truncate) ==
    IF ~truncate.isNone /\ truncate.n # 0 /\ Len(p) > truncate.n
    THEN Prefix(p, truncate.n) \o TRUNCATED_MARKER
    ELSE p

\* lines 93-96: the optional system message, then the user message
BuildMessages(sys, p, truncate) ==
    (IF Truthy(sys) THEN <<[role |-> "system", content |-> sys[1]]>> ELSE << >>)
        \o <<[role |-> "user", content |-> Truncate(p, truncate)]>>

\* the content of the user message of a message list
UserText(msgs) == msgs[Len(msgs)].content

\* body.get('choices') or []
ChoicesOrEmpty(body) ==
    LET c == body.choices
    IN  IF c.kind = "none" \/ (c.kind = "list" /\ c.items = << >>)
           \/ (c.kind = "dict" /\ c.keys = {})
        THEN ChoiceList(<< >>)
        ELSE c

\* lines 130-133: the text fragment of one choice entry
Cont(ch) ==
    IF ch.isdict /\ ch.message.present /\ ch.message.isdict
    THEN Or(ch.message.content, ch.message.text)
    ELSE IF ch.isdict THEN Or(ch.text, ch.content) ELSE << >>

\* lines 127-135: the fragments of all choices; iterating a dict yields its
\* keys, which are strings and contribute nothing
RECURSIVE TextsOfList(_)
TextsOfList(items) ==
    IF items = << >> THEN << >>
    ELSE (IF Truthy(Cont(items[1])) THEN <<Cont(items[1])[1]>> ELSE << >>)
             \o TextsOfList(Tail(items))

Texts(choices) == IF choices.kind = "list" THEN TextsOfList(choices.items) ELSE << >>

\* line 138
JoinedReply(texts) == Strip(Join(texts, <<"\n">>))

\* lines 140-143: the error of an attempt that extracted no text
NoTextError(choices, k) ==
    IF choices.kind = "dict" /\ "error" \in choices.keys
    THEN [kind |-> "LLMError", at |-> k, msg |-> choices.error]
    ELSE [kind |-> "NoText", at |-> k, msg |-> << >>]

TransportError(k) == [kind |-> "Transport", at |-> k, msg |-> << >>]
UnknownError == [kind |-> "Unknown", at |-> 0, msg |-> << >>]

\* mutant: the loop runs over range(1, retries)
InRangeExclusive(k, n) == k < n

\* line 106: range(1, retries + 1) still has the value k
InRange(k, n) == k <= n

\* line 146
SleepTime(factor, k) == factor * Pow2(k - 1)

(***************************************************************************)
(* json.loads on the texts the samples can produce: an object whose keys   *)
(* are strings and whose values are strings, unsigned integers or lists of *)
(* strings, with whitespace between tokens.  Strings hold no escape        *)
(* sequence and no control character.  A JSON value is [t, v]: t is "str", *)
(* "num" or "list" and v the sequence of its strings.  An object is a      *)
(* function from keys to values.                                           *)
(***************************************************************************)
Digits == {"0", "1", "2", "3", "4", "5", "6", "7", "8", "9"}

Str(s) == [t |-> "str", v |-> <<s>>]
Num(s) == [t |-> "num", v |-> <<s>>]
List(ss) == [t |-> "list", v |-> ss]
NoValue == [t |-> "none", v |-> << >>]

EmptyObject == [k \in {} |-> NoValue]

\* obj[key] = val
SetItem(obj, key, val) ==
    [k \in DOMAIN obj \cup {key} |-> IF k = key THEN val ELSE obj[k]]

Parsed(pos, val) == [ok |-> TRUE, pos |-> pos, val |-> val]
Failed == [ok |-> FALSE, pos |-> 0, val |-> NoValue]

At(s, i) == IF i >= 1 /\ i <= Len(s) THEN s[i] ELSE "<eof>"

RECURSIVE SkipWhitespace(_, _)
SkipWhitespace(s, i) ==
    IF At(s, i) \in Whitespace THEN SkipWhitespace(s, i + 1) ELSE i

\* a string starting at the quote s[i]
ParseString(s, i) ==
    LET quotes == {j \in (i + 1)..Len(s) : s[j] = "\""}
    IN  IF At(s, i) # "\"" \/ quotes = {} THEN Failed
        ELSE LET close == CHOOSE j \in quotes : \A q \in quotes : j <= q
                 inner == SubSeq(s, i + 1, close - 1)
             IN  IF \E c \in Range(inner) : c \in {"\\", "\n", "\t", "\r"}
                 THEN Failed
                 ELSE Parsed(close + 1, inner)

\* an unsigned integer starting at the digit s[i]
RECURSIVE DigitsEnd(_, _)
DigitsEnd(s, i) == IF At(s, i) \in Digits THEN DigitsEnd(s, i + 1) ELSE i

ParseNumber(s, i) ==
    IF At(s, i) \notin Digits THEN Failed
    ELSE LET stop == IF s[i] = "0" THEN i + 1 ELSE DigitsEnd(s, i)
         IN  Parsed(stop, Num(SubSeq(s, i, stop - 1)))

\* the elements of a list of strings, after "[" or after ","
RECURSIVE ParseElements(_, _, _)
ParseElements(s, i, acc) ==
    TheOne({ IF ~elem.ok THEN Failed
             ELSE TheOne({ IF At(s, j) = ","
                           THEN ParseElements(s, j + 1, Append(acc, elem.val))
                           ELSE IF At(s, j) = "]"
                           THEN Parsed(j + 1, List(Append(acc, elem.val)))
                           ELSE Failed
                           : j \in {SkipWhitespace(s, elem.pos)} })
             : elem \in {ParseString(s, SkipWhitespace(s, i))} })

ParseArray(s, i) ==
    LET j == SkipWhitespace(s, i + 1)
    IN  IF At(s, i) # "[" THEN Failed
        ELSE IF At(s, j) = "]" THEN Parsed(j + 1, List(<< >>))
        ELSE ParseElements(s, j, << >>)

ParseValue(s, i) ==
    IF At(s, i) = "\"" THEN
        LET str == ParseString(s, i)
        IN  IF str.ok THEN Parsed(str.pos, Str(str.val)) ELSE Failed
    ELSE IF At(s, i) = "[" THEN ParseArray(s, i)
    ELSE ParseNumber(s, i)

\* the members of an object, after "{" or after ","; a repeated key keeps
\* its last value
RECURSIVE ParseMembers(_, _, _)
\* the value of a member, after its key
MemberValue(s, key) ==
    TheOne({ IF At(s, colon) # ":" THEN Failed
             ELSE TheOne({ ParseValue(s, v) : v \in {SkipWhitespace(s, colon + 1)} })
             : colon \in {SkipWhitespace(s, key.pos)} })

ParseMembers(s, i, acc) ==
    TheOne({ IF ~key.ok THEN Failed
             ELSE TheOne({ IF ~val.ok THEN Failed
                           ELSE TheOne({ IF At(s, j) = ","
                                         THEN ParseMembers(s, j + 1, obj)
                                         ELSE IF At(s, j) = "}"
                                         THEN Parsed(j + 1, obj)
                                         ELSE Failed
                                         : j \in {SkipWhitespace(s, val.pos)},
                                           obj \in {SetItem(acc, key.val, val.val)} })
                           : val \in {MemberValue(s, key)} })
             : key \in {ParseString(s, SkipWhitespace(s, i))} })

ParseObject(s, i) ==
    LET j == SkipWhitespace(s, i + 1)
    IN  IF At(s, i) # "{" THEN Failed
        ELSE IF At(s, j) = "}" THEN Parsed(j + 1, EmptyObject)
        ELSE ParseMembers(s, j, EmptyObject)

\* json.loads(s) for a text that is empty or starts with "{": ok is FALSE
\* when it raises json.JSONDecodeError
json_loads(text) ==
    TheOne({ IF obj.ok /\ SkipWhitespace(text, obj.pos) = Len(text) + 1 THEN obj ELSE Failed
             : obj \in {TheOne({ ParseObject(s, SkipWhitespace(s, 1)) : s \in {text} })} })

(***************************************************************************)
(* State.                                                                  *)
(***************************************************************************)
VARIABLES
    \* openai_client: module state and the frame of chat_completion
    HAS_OPENAI_SDK,     \* _HAS_OPENAI_SDK
    cpc,                \* position in chat_completion
    prompt, system, retries, backoff_factor, truncate_chars,   \* its arguments
    messages,           \* the message list built at entry
    attempt,            \* the loop variable
    last_err,           \* Optional[Exception]
    exc,                \* the exception in flight, if any
    ret,                \* the returned string
    events,             \* history: attempts, sleeps, the raise or return
    sent,               \* history: the requests transmitted, by transport
    tried,              \* history: the transports the latest attempt used, in order
    resp,               \* history: the response body the latest attempt ended on, if any
    \* process_pdfs: files and the frame of main
    pdf_dir,            \* basenames of the *.pdf files on disk
    processed_file,     \* processed.json
    results_jsonl,      \* results.jsonl
    results_tab,        \* results.csv and results.xlsx
    pc,                 \* position in main
    pdfs, idx,          \* the glob result and the position of the for loop
    processed, results, \* the in-memory ledger and the batch of new records
    response,           \* the reply being normalized
    status,             \* history: the stage of every candidate input of the run
    printed,            \* the lines the latest step of main printed
    saves,              \* history: writes of processed.json in the run
    stored,             \* history: writes of results.jsonl and the tables in the run
    prev,               \* history: the files as the run found them
    snap                \* history: processed and results when the input was started

clientVars ==
    <<HAS_OPENAI_SDK, cpc, prompt, system, retries, backoff_factor, truncate_chars,
      messages, attempt, last_err, exc, ret, events, sent, tried, resp>>

clientArgs == <<prompt, system, retries, backoff_factor, truncate_chars>>

fileVars == <<pdf_dir, processed_file, results_jsonl, results_tab>>

mainVars ==
    <<pc, pdfs, idx, processed, results, response, status, printed, saves,
      stored, prev, snap>>

vars == <<clientVars, fileVars, mainVars>>

(***************************************************************************)
(* chat_completion, lines 60-149.                                          *)
(***************************************************************************)
Event(e, k, t) == [e |-> e, k |-> k, t |-> t]
Transmission(via, msgs) == [via |-> via, user |-> UserText(msgs)]

\* the function is left, by return or by raise: its locals are gone
LocalsDiscarded == messages' = << >> /\ attempt' = 0 /\ last_err' = << >>

\* lines 86-105: truncate, build the messages and the payload
Prepare ==
    /\ cpc = "entry"
    /\ messages' = BuildMessages(system, prompt, truncate_chars)
    /\ last_err' = << >>
    /\ attempt' = 1
    /\ cpc' = "loop"
    /\ UNCHANGED <<HAS_OPENAI_SDK, clientArgs, exc, ret, events, sent, tried, resp>>

\* mutant: an SDK failure ends the attempt
TransportsWithoutFallback(sdk, sdkRaises) == IF sdk THEN <<"sdk">> ELSE <<"http">>

\* lines 109-125: the transports an attempt uses: the SDK when it is
\* present, then the HTTP path when the SDK is absent or has raised
Transports(sdk, sdkRaises) ==
    (IF sdk THEN <<"sdk">> ELSE << >>)
        \o (IF ~sdk \/ sdkRaises THEN <<"http">> ELSE << >>)

\* lines 107-143: one delivery attempt.  The SDK is tried when it is present,
\* the HTTP path when it is absent or has raised; the attempt returns the
\* joined text or raises.
Attempt ==
    /\ cpc = "loop"
    /\ InRange(attempt, retries)
    /\ \E sdkRaises \in {b \in BOOLEAN : b => HAS_OPENAI_SDK},
          last \in Outcomes :
         \* sdkRaises: the SDK call was made and raised (line 121); last: the
         \* outcome of the transport the attempt ends on
         /\ (HAS_OPENAI_SDK /\ ~sdkRaises) => ~last.raises
         /\ LET choices == ChoicesOrEmpty(last.body)
                texts == Texts(choices)
            IN  /\ tried' = Transports(HAS_OPENAI_SDK, sdkRaises)
                /\ sent' = sent \cup {Transmission(via, messages) :
                                         via \in Range(Transports(HAS_OPENAI_SDK, sdkRaises))}
                /\ resp' = IF last.raises THEN << >> ELSE <<last.body>>
                /\ events' = Append(events, Event("attempt", attempt, 0))
                /\ IF ~last.raises /\ texts # << >>
                   THEN /\ ret' = JoinedReply(texts)
                        /\ cpc' = "returned"
                        /\ exc' = exc
                        /\ LocalsDiscarded
                   ELSE /\ exc' = <<IF last.raises THEN TransportError(attempt)
                                    ELSE NoTextError(choices, attempt)>>
                        /\ cpc' = "except"
                        /\ ret' = ret
                        /\ UNCHANGED <<messages, attempt, last_err>>
    /\ UNCHANGED <<HAS_OPENAI_SDK, clientArgs>>

\* lines 144-147: the handler of a failed attempt, then the next loop value
Except ==
    /\ cpc = "except"
    /\ last_err' = exc
    /\ exc' = << >>
    /\ events' = Append(events, Event("sleep", attempt, SleepTime(backoff_factor, attempt)))
    /\ attempt' = attempt + 1
    /\ cpc' = "loop"
    /\ tried' = << >> /\ resp' = << >>
    /\ UNCHANGED <<HAS_OPENAI_SDK, clientArgs, messages, ret, sent>>

\* line 149: the loop is exhausted
Exhausted ==
    /\ cpc = "loop"
    /\ ~InRange(attempt, retries)
    /\ exc' = IF last_err # << >> THEN last_err ELSE <<UnknownError>>
    /\ events' = Append(events, Event("raise", attempt - 1, 0))
    /\ cpc' = "raised"
    /\ LocalsDiscarded
    /\ UNCHANGED <<HAS_OPENAI_SDK, clientArgs, ret, sent, tried, resp>>

ClientStep == Prepare \/ Attempt \/ Except \/ Exhausted

(***************************************************************************)
(* process_pdfs.main: its pure parts.                                      *)
(***************************************************************************)
\* a file: whether it exists, the entries it holds, and whether it was
\* written to its end.  A file whose write was cut short holds the entries
\* that reached the disk and is not whole.
NoFile == [exists |-> FALSE, data |-> << >>, whole |-> TRUE]
File(data) == [exists |-> TRUE, data |-> data, whole |-> TRUE]
TornFile(data) == [exists |-> TRUE, data |-> data, whole |-> FALSE]

\* json.load and jsonlines read a file that is whole, and raise otherwise
Loads(file) == file.exists => file.whole

Letters == <<"a", "b", "c", "d", "e", "f", "g", "h">>
PdfName(i) == <<Letters[i], ".", "p", "d", "f">>
PdfNames == {PdfName(i) : i \in 1..MaxPdfs}

FILENAME == <<"f", "i", "l", "e", "n", "a", "m", "e">>
BIASES == <<"b", "i", "a", "s", "e", "s">>
FENCE == <<"@", "@", "@">>
FENCE_JSON == <<"@", "@", "@", "j", "s", "o", "n">>

\* glob.glob: the files of the directory, each once, in an order the file
\* system chooses.  The code treats all names alike and a ledger can hold
\* them in any order, so the listing is taken in the order of the names:
\* every other listing is this one with the files renamed.
Glob(dir) == [i \in 1..Cardinality(dir) |-> PdfName(i)]

\* lines 26-30: json.load of processed.json, or [] when it does not exist
LoadProcessed(file) == IF file.exists THEN file.data ELSE << >>

\* mutant: the path, not the basename, is looked up in the ledger
IsDoneByPath(name, ledger) == (<<"p", "d", "f", "s", "/">> \o name) \in Range(ledger)

\* line 43: pdf_name in processed
IsDone(name, ledger) == name \in Range(ledger)

\* lines 52-56: the text of the pages that have any, a newline after each
RECURSIVE ExtractText(_)
ExtractText(pages) ==
    IF pages = << >> THEN << >>
    ELSE (IF pages[1] # << >> THEN pages[1] \o <<"\n">> ELSE << >>)
             \o ExtractText(Tail(pages))

\* line 66
FullPrompt(text) == ConfigPrompt \o PROMPT_SEPARATOR \o text

\* lines 81-84: strip a Markdown fence
StripFence(r) ==
    IF StartsWith(r, FENCE_JSON) /\ EndsWith(r, FENCE)
    THEN Strip(Slice(r, 7, PyIndex(r, -3)))
    ELSE IF StartsWith(r, FENCE) /\ EndsWith(r, FENCE)
    THEN Strip(Slice(r, 3, PyIndex(r, -3)))
    ELSE r

\* s.split(",")
RECURSIVE Split(_)
Split(s) ==
    TheOne({ IF at = -1 THEN <<s>>
             ELSE <<Slice(s, 0, at)>>
                      \o TheOne({ Split(rest) : rest \in {Slice(s, at + 1, Len(s))} })
             : at \in {Find(s, ",")} })

\* mutant: [b.strip() for b in parts]
StripAllKeepsEmpty(parts) == [k \in 1..Len(parts) |-> Strip(parts[k])]

RECURSIVE StripAll(_)
StripAll(parts) ==
    IF parts = << >> THEN << >>
    ELSE (IF Strip(parts[1]) # << >> THEN <<Strip(parts[1])>> ELSE << >>)
             \o StripAll(Tail(parts))

\* lines 101-102: a 'biases' string becomes the list of its segments
RepairBiases(data) ==
    IF BIASES \in DOMAIN data /\ data[BIASES].t = "str"
    THEN SetItem(data, BIASES, List(StripAll(Split(data[BIASES].v[1]))))
    ELSE data

\* mutant: data.setdefault('filename', pdf_name)
FinalizeKeepsReplyFilename(data, name) ==
    RepairBiases(IF FILENAME \in DOMAIN data THEN data ELSE SetItem(data, FILENAME, Str(name)))

\* lines 99-102: the record of a parsed reply
Finalize(data, name) == RepairBiases(SetItem(data, FILENAME, Str(name)))

\* a line of output: the fixed words of the message and the value it shows
Line(msg, arg) == [msg |-> msg, arg |-> arg]

\* lines 76-98: the object of a reply, or no object.  why is "empty",
\* "structure" or "parse" when there is none, and shown the value of the
\* variable response at that point.
Rejected(why, shown) == [ok |-> FALSE, why |-> why, data |-> EmptyObject, shown |-> shown]

Normalized(reply) ==
    IF Strip(reply) = << >> THEN Rejected("empty", reply)
    ELSE TheOne({
           TheOne({ IF start = -1 \/ end = -1 THEN Rejected("structure", r)
                    ELSE TheOne({ IF ~parsed.ok
                                  THEN Rejected("parse", Slice(r, start, end + 1))
                                  ELSE [ok |-> TRUE, why |-> "", data |-> parsed.val,
                                        shown |-> Slice(r, start, end + 1)]
                                  : parsed \in {json_loads(Slice(r, start, end + 1))} })
                    : start \in {Find(r, "{")}, end \in {RFind(r, "}")} })
           : r \in {StripFence(reply)} })

\* lines 77, 92-93, 105 and 107-108: what is printed for a reply
NormalizeOutput(n, name) ==
    IF n.ok THEN <<Line("Successfully processed: ", name)>>
    ELSE IF n.why = "empty" THEN <<Line("Empty response for ", name)>>
    ELSE IF n.why = "structure"
    THEN <<Line("Invalid JSON structure for ", name), Line("Response: ", n.shown)>>
    ELSE <<Line("Failed to parse JSON for ", name), Line("Response: ", n.shown)>>

\* lines 75-109 for one reply and one input: whether a record is made, the
\* record, and the lines printed
NormalizeReply(reply, name) ==
    TheOne({ [ok |-> n.ok, why |-> n.why,
              record |-> IF n.ok THEN Finalize(n.data, name) ELSE EmptyObject,
              lines |-> NormalizeOutput(n, name)]
             : n \in {Normalized(reply)} })

\* replies that are one object with a 'biases' member: every string over a
\* letter, another letter, the comma and the space up to the bound, a list
\* holding a string with a comma, a number; and the object without the member
BiasTexts == StringsUpTo({"x", "y", ",", " "}, MaxBiasLen)

Quoted(s) == <<"\"">> \o s \o <<"\"">>

BiasesObject(valueText) ==
    <<"{">> \o Quoted(BIASES) \o <<":">> \o valueText \o <<"}">>

REPLY_BIASES_LIST == BiasesObject(<<"[">> \o Quoted(<<"x", ",", " ", "y">>) \o <<"]">>)

REPLY_BIASES_NUMBER == BiasesObject(<<"1">>)

RepairReplies ==
    {BiasesObject(Quoted(s)) : s \in BiasTexts}
        \cup {REPLY_EMPTY_OBJECT, REPLY_BIASES_LIST, REPLY_BIASES_NUMBER}

\* the strings chat_completion can return, given the sample responses
ReturnValues == {JoinedReply(Texts(ChoicesOrEmpty(b))) : b \in Bodies}

\* NormalizeReply, tabulated over the replies and the inputs of the model
NormalizeTable ==
    [reply \in ReturnValues \cup RepairReplies, name \in PdfNames
        |-> NormalizeReply(reply, name)]

\* mutant: results + existing_results
MergeNewFirst(existing, new) == new \o existing

\* line 125
MergeResults(existing, new) == existing \o new

\* what pdfplumber yields for a file: it raises, or the text of each page
\* (the empty string for a page without text)
PageSamples ==
    { << >>, << <<" ">> >>, << <<"t">>, << >>, <<"u">> >> }

Extractions ==
    {[raises |-> TRUE, pages |-> << >>]}
        \cup {[raises |-> FALSE, pages |-> p] : p \in PageSamples}

(***************************************************************************)
(* process_pdfs.main, lines 19-137.                                        *)
(***************************************************************************)
NoPrev == [ledger |-> NoFile, store |-> NoFile, tab |-> NoFile, crashed |-> ""]

NoSnap == [processed |-> << >>, results |-> << >>]

Terminal == {"SKIPPED_DONE", "DONE", "SKIPPED_ERROR"}

\* the frame of chat_completion while it is not running
ClientIdle ==
    /\ cpc = "idle"
    /\ prompt = << >> /\ system = << >> /\ retries = 0 /\ backoff_factor = 0
    /\ truncate_chars = NoneInt
    /\ messages = << >> /\ attempt = 0 /\ last_err = << >> /\ exc = << >>
    /\ ret = << >> /\ events = << >> /\ sent = {}
    /\ tried = << >> /\ resp = << >>

ClientDiscarded ==
    /\ cpc' = "idle"
    /\ prompt' = << >> /\ system' = << >> /\ retries' = 0 /\ backoff_factor' = 0
    /\ truncate_chars' = NoneInt
    /\ messages' = << >> /\ attempt' = 0 /\ last_err' = << >> /\ exc' = << >>
    /\ ret' = << >> /\ events' = << >> /\ sent' = {}
    /\ tried' = << >> /\ resp' = << >>
    /\ UNCHANGED HAS_OPENAI_SDK

MainIdle ==
    /\ pc = "idle"
    /\ pdfs = << >> /\ idx = 1
    /\ processed = << >> /\ results = << >>
    /\ response = << >>
    /\ status = << >>
    /\ printed = << >>
    /\ saves = 0 /\ stored = 0
    /\ prev = NoPrev
    /\ snap = NoSnap

FrameDiscarded ==
    /\ pdfs' = << >> /\ idx' = 1
    /\ processed' = << >> /\ results' = << >>
    /\ response' = << >>
    /\ status' = << >>
    /\ printed' = << >>
    /\ saves' = 0 /\ stored' = 0
    /\ snap' = NoSnap

MainDiscarded == FrameDiscarded /\ prev' = NoPrev

\* lines 20-39: load the ledger, list the PDFs, start with an empty batch
StartRun ==
    /\ pc = "idle"
    /\ Loads(processed_file)
    /\ processed' = LoadProcessed(processed_file)
    /\ pdfs' = Glob(pdf_dir)
    /\ results' = << >>
    /\ idx' = 1
    /\ pc' = "loop"
    /\ response' = << >>
    /\ status' = [n \in pdf_dir |-> "PENDING"]
    /\ printed' = << >>
    /\ saves' = 0 /\ stored' = 0
    /\ prev' = [ledger |-> processed_file, store |-> results_jsonl, tab |-> results_tab,
                crashed |-> ""]
    /\ snap' = NoSnap
    /\ UNCHANGED <<clientVars, fileVars>>

\* lines 41-45: an input already in the ledger is skipped
SkipProcessed ==
    /\ pc = "loop"
    /\ idx <= Len(pdfs)
    /\ IsDone(pdfs[idx], processed)
    /\ status' = [status EXCEPT ![pdfs[idx]] = "SKIPPED_DONE"]
    /\ printed' = <<Line("Skipping already processed: ", pdfs[idx])>>
    /\ idx' = idx + 1
    /\ UNCHANGED <<clientVars, fileVars, pc, pdfs, processed, results, response,
                   saves, stored, prev, snap>>

\* lines 41-47: any other input is started
StartInput ==
    /\ pc = "loop"
    /\ idx <= Len(pdfs)
    /\ ~IsDone(pdfs[idx], processed)
    /\ status' = [status EXCEPT ![pdfs[idx]] = "EXTRACTING"]
    /\ snap' = [processed |-> processed, results |-> results]
    /\ printed' = <<Line("Processing: ", pdfs[idx])>>
    /\ pc' = "extract"
    /\ UNCHANGED <<clientVars, fileVars, pdfs, idx, processed, results, response,
                   saves, stored, prev>>

\* mutant: a failure also clears the batch of new records
SkipInputLosesBatch(name) ==
    /\ status' = [status EXCEPT ![name] = "SKIPPED_ERROR"]
    /\ idx' = idx + 1
    /\ pc' = "loop"
    /\ processed' = processed
    /\ results' = << >>

\* the continue statements of lines 59, 63, 73, 78, 94 and 109
SkipInput(name) ==
    /\ status' = [status EXCEPT ![name] = "SKIPPED_ERROR"]
    /\ idx' = idx + 1
    /\ pc' = "loop"
    /\ processed' = processed
    /\ results' = results

\* lines 49-70: extract the text; call chat_completion when there is any
Extract ==
    /\ pc = "extract"
    /\ \E x \in Extractions :
         LET text == ExtractText(x.pages)
         IN  IF x.raises \/ Strip(text) = << >>
             THEN /\ SkipInput(pdfs[idx])
                  /\ printed' = <<Line(IF x.raises THEN "Failed to read PDF "
                                       ELSE "No text extracted from ", pdfs[idx])>>
                  /\ UNCHANGED clientVars
             ELSE /\ prompt' = FullPrompt(text)
                  /\ system' = << >>
                  /\ retries' = DefaultRetries
                  /\ backoff_factor' = DefaultBackoffFactor
                  /\ truncate_chars' = SomeInt(DefaultTruncateChars)
                  /\ cpc' = "entry"
                  /\ UNCHANGED <<HAS_OPENAI_SDK, messages, attempt, last_err, exc,
                                 ret, events, sent, tried, resp>>
                  /\ status' = [status EXCEPT ![pdfs[idx]] = "CALLING"]
                  /\ pc' = "call"
                  /\ printed' = << >>
                  /\ UNCHANGED <<idx, processed, results>>
    /\ UNCHANGED <<fileVars, pdfs, response, saves, stored, prev, snap>>

\* lines 71-73: chat_completion raised
CallRaised ==
    /\ pc = "call"
    /\ cpc = "raised"
    /\ ClientDiscarded
    /\ SkipInput(pdfs[idx])
    /\ printed' = <<Line("API call failed for ", pdfs[idx])>>
    /\ UNCHANGED <<fileVars, pdfs, response, saves, stored, prev, snap>>

\* line 70: chat_completion returned
CallReturned ==
    /\ pc = "call"
    /\ cpc = "returned"
    /\ response' = ret
    /\ ClientDiscarded
    /\ status' = [status EXCEPT ![pdfs[idx]] = "NORMALIZING"]
    /\ pc' = "normalize"
    /\ printed' = << >>
    /\ UNCHANGED <<fileVars, pdfs, idx, processed, results, saves, stored, prev, snap>>

\* lines 75-109: normalize the reply; on success record it and mark the ledger
Normalize ==
    /\ pc = "normalize"
    /\ LET n == NormalizeTable[response, pdfs[idx]]
       IN  IF n.ok
           THEN /\ results' = Append(results, n.record)
                /\ processed' = Append(processed, pdfs[idx])
                /\ status' = [status EXCEPT ![pdfs[idx]] = "DONE"]
                /\ idx' = idx + 1
                /\ pc' = "loop"
           ELSE SkipInput(pdfs[idx])
    /\ printed' = NormalizeTable[response, pdfs[idx]].lines
    /\ response' = << >>
    /\ UNCHANGED <<clientVars, fileVars, pdfs, saves, stored, prev, snap>>

\* mutant: processed.json is written only when there are new records
FlushOnlyWithResults ==
    /\ pc = "loop"
    /\ idx > Len(pdfs)
    /\ processed_file' = IF results # << >> THEN File(processed) ELSE processed_file
    /\ saves' = IF results # << >> THEN saves + 1 ELSE saves
    /\ pc' = "save"
    /\ printed' = << >>
    /\ UNCHANGED <<clientVars, pdf_dir, results_jsonl, results_tab, pdfs, idx,
                   processed, results, response, status, stored, prev, snap>>

\* lines 111-113: after the loop, write processed.json
Flush ==
    /\ pc = "loop"
    /\ idx > Len(pdfs)
    /\ processed_file' = File(processed)
    /\ saves' = saves + 1
    /\ pc' = "save"
    /\ printed' = << >>
    /\ UNCHANGED <<clientVars, pdf_dir, results_jsonl, results_tab, pdfs, idx,
                   processed, results, response, status, stored, prev, snap>>

\* mutant: the stored records are written back when there is no new one
NoResultsRewrites ==
    /\ pc = "save"
    /\ results = << >>
    /\ results_jsonl' = File(IF results_jsonl.exists THEN results_jsonl.data ELSE << >>)
    /\ results_tab' = File(IF results_jsonl.exists THEN results_jsonl.data ELSE << >>)
    /\ stored' = stored + 1
    /\ printed' = <<Line("No new results to save.", << >>)>>
    /\ pc' = "done"
    /\ UNCHANGED <<clientVars, pdf_dir, processed_file, pdfs, idx, processed, results,
                   response, status, saves, prev, snap>>

\* lines 115-117: nothing new to save
NoResults ==
    /\ pc = "save"
    /\ results = << >>
    /\ printed' = <<Line("No new results to save.", << >>)>>
    /\ pc' = "done"
    /\ UNCHANGED <<clientVars, fileVars, pdfs, idx, processed, results, response,
                   status, saves, stored, prev, snap>>

\* lines 119-137: rewrite results.jsonl and the tables with old and new records
Merge ==
    /\ pc = "save"
    /\ results # << >>
    /\ Loads(results_jsonl)
    /\ LET existing_results == IF results_jsonl.exists THEN results_jsonl.data ELSE << >>
           all_results == MergeResults(existing_results, results)
       IN  /\ results_jsonl' = File(all_results)
           /\ results_tab' = File(all_results)
    /\ stored' = stored + 1
    /\ printed' = <<Line("Results saved to results.jsonl, results.csv, results.xlsx", << >>)>>
    /\ pc' = "done"
    /\ UNCHANGED <<clientVars, pdf_dir, processed_file, pdfs, idx, processed, results,
                   response, status, saves, prev, snap>>

\* main returns and the process exits: its frame is gone, the files stay
Return ==
    /\ pc = "done"
    /\ pc' = "idle"
    /\ MainDiscarded
    /\ UNCHANGED <<clientVars, fileVars>>

(***************************************************************************)
(* The process is terminated, or dies of an exception main does not catch. *)
(* prev keeps the files the terminated run found and where it ended.       *)
(***************************************************************************)
Killed(where) ==
    /\ pc' = "idle"
    /\ FrameDiscarded
    /\ ClientDiscarded
    /\ prev' = [prev EXCEPT !.crashed = where]

\* the process is terminated between two steps of main or of chat_completion
Crash ==
    /\ pc # "idle"
    /\ Killed(pc)
    /\ UNCHANGED fileVars

\* lines 112-113: the process is terminated after open(processed_file, 'w')
\* has emptied the file and before the with block has closed it; any
\* leading part of the new text has reached the disk
CrashInFlush ==
    /\ pc = "loop"
    /\ idx > Len(pdfs)
    /\ \E k \in 0..Len(processed) :
         processed_file' = TornFile(SubSeq(processed, 1, k))
    /\ Killed("flush")
    /\ UNCHANGED <<pdf_dir, results_jsonl, results_tab>>

\* lines 128-135: the process is terminated while results.jsonl is written
\* (some leading lines have reached the disk, the last of them whole or
\* not), or after it, while the tables are written
CrashInMerge ==
    /\ pc = "save"
    /\ results # << >>
    /\ Loads(results_jsonl)
    /\ LET existing_results == IF results_jsonl.exists THEN results_jsonl.data ELSE << >>
           all_results == MergeResults(existing_results, results)
       IN  \/ /\ \E k \in 0..(Len(all_results) - 1) :
                    results_jsonl' \in {File(SubSeq(all_results, 1, k)),
                                        TornFile(SubSeq(all_results, 1, k))}
              /\ results_tab' = results_tab
           \/ /\ results_jsonl' = File(all_results)
              /\ results_tab' = TornFile(<< >>)
    /\ Killed("merge")
    /\ UNCHANGED <<pdf_dir, processed_file>>

\* line 28: json.load raises on a processed.json that is not whole; main
\* does not catch it and the run ends before it has begun
LoadFails ==
    /\ pc = "idle"
    /\ ~Loads(processed_file)
    /\ printed' = <<Line("json.JSONDecodeError", << >>)>>
    /\ UNCHANGED <<clientVars, fileVars, pc, pdfs, idx, processed, results, response,
                   status, saves, stored, prev, snap>>

\* line 123: jsonlines raises on a results.jsonl whose last line is cut;
\* main does not catch it
MergeFails ==
    /\ pc = "save"
    /\ results # << >>
    /\ ~Loads(results_jsonl)
    /\ Killed("read")
    /\ UNCHANGED fileVars

\* the directory holds any number of PDFs up to the bound; since the code
\* treats all names alike, the k files are PdfName(1) .. PdfName(k)
Init ==
    /\ HAS_OPENAI_SDK \in BOOLEAN
    /\ ClientIdle
    /\ pdf_dir \in {{PdfName(i) : i \in 1..k} : k \in 0..MaxPdfs}
    /\ processed_file = NoFile /\ results_jsonl = NoFile /\ results_tab = NoFile
    /\ MainIdle

Next ==
    \/ StartRun
    \/ SkipProcessed
    \/ StartInput
    \/ Extract
    \/ Prepare /\ pc = "call" /\ UNCHANGED <<fileVars, mainVars>>
    \/ Attempt /\ pc = "call" /\ UNCHANGED <<fileVars, mainVars>>
    \/ Except /\ pc = "call" /\ UNCHANGED <<fileVars, mainVars>>
    \/ Exhausted /\ pc = "call" /\ UNCHANGED <<fileVars, mainVars>>
    \/ CallRaised
    \/ CallReturned
    \/ Normalize
    \/ Flush
    \/ NoResults
    \/ Merge
    \/ Return

Spec == Init /\ [][Next]_vars

\* main runs to its end once started: every step of a run is taken by the
\* one sequential process; whether and when the operator starts another run
\* or adds a file is not constrained
RunStep ==
    \/ SkipProcessed
    \/ StartInput
    \/ Extract
    \/ (pc = "call" /\ ClientStep /\ UNCHANGED <<fileVars, mainVars>>)
    \/ CallRaised
    \/ CallReturned
    \/ Normalize
    \/ Flush
    \/ NoResults
    \/ Merge

FairSpec == Spec /\ WF_vars(RunStep)

\* runs that may be terminated at any point
CrashNext ==
    \/ Next
    \/ Crash
    \/ CrashInFlush
    \/ CrashInMerge
    \/ LoadFails
    \/ MergeFails

CrashSpec == Init /\ [][CrashNext]_vars

(***************************************************************************)
(* chat_completion called directly, as openai_client's __main__ does, with *)
(* every combination of arguments within the bounds.                       *)
(***************************************************************************)
Prompts == StringsUpTo({"a", "b"}, MaxPromptLen)
Systems == {<< >>, << <<"s">> >>}
TruncateOptions == {NoneInt} \cup {SomeInt(n) : n \in (-1)..MaxTruncate}

ClientInit ==
    /\ HAS_OPENAI_SDK \in BOOLEAN
    /\ cpc = "entry"
    /\ prompt \in Prompts
    /\ system \in Systems
    /\ retries \in 0..MaxRetries
    /\ backoff_factor \in 0..MaxBackoff
    /\ truncate_chars \in TruncateOptions
    /\ messages = << >> /\ attempt = 0 /\ last_err = << >> /\ exc = << >>
    /\ ret = << >> /\ events = << >> /\ sent = {}
    /\ tried = << >> /\ resp = << >>
    /\ pdf_dir = {}
    /\ processed_file = NoFile /\ results_jsonl = NoFile /\ results_tab = NoFile
    /\ MainIdle

ClientNext ==
    \/ Prepare /\ UNCHANGED <<fileVars, mainVars>>
    \/ Attempt /\ UNCHANGED <<fileVars, mainVars>>
    \/ Except /\ UNCHANGED <<fileVars, mainVars>>
    \/ Exhausted /\ UNCHANGED <<fileVars, mainVars>>

ClientSpec == ClientInit /\ [][ClientNext]_vars

(***************************************************************************)
(* Lines 75-109 applied to one reply: main has listed one PDF, extracted   *)
(* its text and received the reply, which is any of RepairReplies.         *)
(***************************************************************************)
RepairInit ==
    /\ HAS_OPENAI_SDK \in BOOLEAN
    /\ ClientIdle
    /\ pdf_dir = {PdfName(1)}
    /\ processed_file = NoFile /\ results_jsonl = NoFile /\ results_tab = NoFile
    /\ pc = "normalize"
    /\ pdfs = <<PdfName(1)>> /\ idx = 1
    /\ processed = << >> /\ results = << >>
    /\ response \in RepairReplies
    /\ status = [n \in pdf_dir |-> "NORMALIZING"]
    /\ printed = << >>
    /\ saves = 0 /\ stored = 0
    /\ prev = NoPrev
    /\ snap = NoSnap

RepairNext == Normalize

RepairSpec == RepairInit /\ [][RepairNext]_vars

(***************************************************************************)
(* Properties.                                                             *)
(***************************************************************************)
\* the ledger as the run loaded it, and the identifiers the run added to it
Loaded == prev.ledger.data
NewIds == SubSeq(processed, Len(Loaded) + 1, Len(processed))

NoDuplicates(seq) == \A i, j \in 1..Len(seq) : i # j => seq[i] # seq[j]

AttemptsMade == Cardinality({j \in 1..Len(events) : events[j].e = "attempt"})

\* C1: an input whose identifier is in the ledger, as loaded or as extended
\* earlier in the run, is skipped without extraction and without a call of
\* chat_completion: it only ever is PENDING or SKIPPED_DONE, and the input
\* that is being extracted, sent to chat_completion or normalized is never
\* in the ledger.
C1_LedgerGatesRemoteCall ==
    /\ NoDuplicates(pdfs)
    /\ \A n \in Range(pdfs) :
         n \in Range(Loaded) => status[n] \in {"PENDING", "SKIPPED_DONE"}
    /\ \A n \in Range(pdfs) :
         status[n] \in {"EXTRACTING", "CALLING", "NORMALIZING"}
             => n = pdfs[idx] /\ n \notin Range(processed)
    /\ cpc # "idle" => pc = "call" /\ status[pdfs[idx]] = "CALLING"

C1_Witness ==
    /\ \E n \in Range(pdfs) : n \in Range(Loaded) /\ status[n] = "SKIPPED_DONE"
    /\ cpc = "returned"

C3_RetryBound ==
    /\ (cpc # "idle" /\ retries >= 1) => AttemptsMade <= retries
    /\ (cpc = "raised" /\ retries >= 1) =>
          /\ AttemptsMade = retries
          /\ \A k \in 1..retries :
               \E j \in 1..Len(events) : events[j] = Event("attempt", k, 0)
          /\ Len(exc) = 1
          /\ exc[1].at = retries
          /\ exc[1].kind \in {"Transport", "NoText", "LLMError"}

C3_Witness ==
    /\ cpc = "raised"
    /\ retries >= 2
    /\ HAS_OPENAI_SDK
    /\ {t.via : t \in sent} = {"sdk", "http"}
    /\ exc[1].kind = "Transport"

\* C4 as stated: every sleep follows a failed attempt k, lasts
\* backoff_factor * 2^(k-1) and is followed by another attempt, so that no
\* sleep stands between the last attempt and the raise.
C4_SleepOnlyBeforeRetry ==
    \A j \in 1..Len(events) :
        events[j].e = "sleep" =>
            /\ j > 1
            /\ events[j - 1] = Event("attempt", events[j].k, 0)
            /\ events[j].t = backoff_factor * Pow2(events[j].k - 1)
            /\ cpc \in {"raised", "returned"} =>
                   (j < Len(events) /\ events[j + 1].e = "attempt")

\* C5: for a positive truncate_chars = L every request, over the SDK or over
\* HTTP and on every attempt, carries as user text the first L characters
\* of the prompt and the marker when the prompt is longer than L, and the
\* prompt itself otherwise.
C5_TruncationResult ==
    \A t \in sent :
        (~truncate_chars.isNone /\ truncate_chars.n > 0) =>
            t.user =
                IF Len(prompt) > truncate_chars.n
                THEN SubSeq(prompt, 1, truncate_chars.n) \o TRUNCATED_MARKER
                ELSE prompt

C5_Witness ==
    /\ ~truncate_chars.isNone /\ truncate_chars.n > 0
    /\ Len(prompt) > truncate_chars.n
    /\ {t.via : t \in sent} = {"sdk", "http"}
    /\ AttemptsMade >= 2

C7_LedgerMarksMatchRecords ==
    pc # "idle" =>
        /\ Len(processed) >= Len(Loaded)
        /\ SubSeq(processed, 1, Len(Loaded)) = Loaded
        /\ Len(results) = Len(NewIds)
        /\ \A k \in 1..Len(results) :
             FILENAME \in DOMAIN results[k] /\ results[k][FILENAME] = Str(NewIds[k])
        /\ NoDuplicates(NewIds)
        /\ \A n \in Range(pdfs) :
             n \in Range(NewIds) <=> status[n] = "DONE"

C7_Witness ==
    /\ Len(results) = 2
    /\ BIASES \in DOMAIN results[2]
    /\ results[2][BIASES] = List(<< <<"x">>, <<"y">> >>)
    /\ results[2][FILENAME] = Str(pdfs[2])
    /\ processed = <<pdfs[1], pdfs[2]>>

\* C8: an input that ends in SKIPPED_ERROR, at whatever stage, leaves the
\* batch of new records and the ledger as they were when it was started,
\* and the loop goes on with the next input, so that every input has
\* reached a terminal state when the loop is left.
C8_FailureIsLocal ==
    /\ [][\A n \in DOMAIN status :
            (n \in DOMAIN status' /\ status[n] # "SKIPPED_ERROR"
                /\ status'[n] = "SKIPPED_ERROR")
                => /\ status[n] \in {"EXTRACTING", "CALLING", "NORMALIZING"}
                   /\ processed' = snap.processed /\ results' = snap.results
                   /\ processed_file' = processed_file /\ results_jsonl' = results_jsonl
                   /\ pc' = "loop" /\ idx' = idx + 1]_vars
    /\ [](pc \in {"extract", "call", "normalize"}
            => processed = snap.processed /\ results = snap.results)
    /\ [](pc \in {"save", "done"} => \A n \in Range(pdfs) : status[n] \in Terminal)

C8_Witness ==
    /\ Len(pdfs) = 2
    /\ status[pdfs[1]] = "DONE"
    /\ status[pdfs[2]] = "SKIPPED_ERROR"
    /\ Len(results) = 1
    /\ pc = "done"

\* C9: a run that has started reaches the end of main; there every input
\* is SKIPPED_DONE, DONE or SKIPPED_ERROR and processed.json has been
\* written exactly once, after the loop.
C9_FullPassSingleFlush ==
    /\ [](saves <= 1)
    /\ [](saves = 1 => pc \in {"save", "done"} /\ idx = Len(pdfs) + 1)
    /\ [](pc = "done" =>
            /\ saves = 1
            /\ processed_file = File(processed)
            /\ \A n \in Range(pdfs) : status[n] \in Terminal)
    /\ (pc = "loop" ~> pc = "done")

C9_Witness ==
    /\ pc = "done"
    /\ saves = 1
    /\ \E n \in Range(pdfs) : status[n] = "SKIPPED_ERROR"
    /\ \E n \in Range(pdfs) : status[n] = "SKIPPED_DONE"

\* C11: a run that produced no new record does not write results.jsonl or
\* the tables, which keep the content the run found, and it prints that
\* there are no new results to save.
C11_EmptyBatchLeavesStore ==
    (pc = "done" /\ results = << >>) =>
        /\ stored = 0
        /\ results_jsonl = prev.store
        /\ results_tab = prev.tab
        /\ printed = <<Line("No new results to save.", << >>)>>

C11_Witness ==
    /\ pc = "done" /\ results = << >>
    /\ prev.store.exists /\ prev.store.data # << >>
    /\ \E n \in Range(pdfs) : status[n] = "SKIPPED_ERROR"
    /\ \E n \in Range(pdfs) : status[n] = "SKIPPED_DONE"

\* C10: after a run that produced new records, results.jsonl holds the
\* records it held before the run, in their order, followed by the new
\* records in the order they were produced.
C10_MergeKeepsExistingFirst ==
    (pc = "done" /\ results # << >>) =>
        /\ results_jsonl.exists
        /\ results_jsonl.data = prev.store.data \o results
        /\ Len(results_jsonl.data) = Len(prev.store.data) + Len(NewIds)

C10_Witness ==
    /\ pc = "done"
    /\ results # << >>
    /\ prev.store.exists
    /\ prev.store.data # << >>
    /\ prev.store.data[1] # results[1]

\* C12 as stated: processed.json never loses an entry, also when runs are
\* terminated at an arbitrary point: it holds every entry that the run
\* under way, or the run that was terminated, found in it.
C12_LedgerNeverLosesEntry ==
    Range(prev.ledger.data) \subseteq Range(processed_file.data)

\* C13 as stated: after a run that was terminated while it wrote
\* processed.json the file is the whole file the run found.
C13_AtomicLedgerSave ==
    (prev.crashed = "flush" /\ prev.ledger.exists) => processed_file = prev.ledger

\* C19 as stated: while no run is under way, whether the last run ended or
\* was terminated, results.jsonl holds a record with 'filename' = id for
\* every id in a processed.json that is whole.
C19_LedgerEntriesHaveRecords ==
    (pc = "idle" /\ processed_file.whole) =>
        \A id \in Range(processed_file.data) :
            \E k \in 1..Len(results_jsonl.data) :
                results_jsonl.data[k][FILENAME] = Str(id)

\* C14 as stated: a non-empty reply that, after fence stripping, has no "{"
\* or no "}" ends in SKIPPED_ERROR with the raw reply printed, no record and
\* no ledger mark; otherwise the text from the first "{" through the last
\* "}" is what is parsed, and when that fails the input ends in
\* SKIPPED_ERROR with that text printed.
C14_NormalizerBoundaries ==
    [][(pc = "normalize" /\ pc' = "loop" /\ Strip(response) # << >>) =>
         LET r == StripFence(response)
             sub == Slice(r, Find(r, "{"), RFind(r, "}") + 1)
             name == pdfs[idx]
         IN  IF "{" \notin Range(r) \/ "}" \notin Range(r)
             THEN /\ status'[name] = "SKIPPED_ERROR"
                  /\ Line("Response: ", response) \in Range(printed')
                  /\ results' = results /\ processed' = processed
             ELSE IF json_loads(sub).ok
             THEN /\ status'[name] = "DONE"
                  /\ results' = Append(results, Finalize(json_loads(sub).val, name))
             ELSE /\ status'[name] = "SKIPPED_ERROR"
                  /\ Line("Response: ", sub) \in Range(printed')
                  /\ results' = results /\ processed' = processed]_vars

\* the response carries an error indicator: an 'error' member of the body
\* or of its 'choices'; and the message it carries
HasErrorIndicator(body) ==
    body.error # << >> \/ (body.choices.kind = "dict" /\ "error" \in body.choices.keys)
EmbeddedError(body) ==
    IF body.error # << >> THEN body.error ELSE body.choices.error

\* C15 as stated: an attempt that received a response and extracted no
\* text fails with the response's embedded error message when the response
\* has an error indicator, and with the generic error when it has none.
C15_EmbeddedErrorReported ==
    (cpc = "except" /\ resp # << >>) =>
        IF HasErrorIndicator(resp[1])
        THEN exc[1].kind = "LLMError" /\ exc[1].msg = EmbeddedError(resp[1])
        ELSE exc[1].kind = "NoText"

\* C16: an attempt makes its transmissions in one step of the loop: with
\* the SDK present it tries the SDK and, when that raised, the HTTP path,
\* without a sleep and with the same attempt number; without the SDK it
\* uses the HTTP path alone.  An attempt fails only when the transport it
\* ended on raised or brought no text, and a transport error is always the
\* HTTP path's.  Attempts and sleeps alternate, attempt k before sleep k.
C16_FallbackInsideAttempt ==
    /\ \A j \in 1..Len(events) :
         /\ events[j].e = "attempt" => (j % 2 = 1 /\ events[j].k = (j + 1) \div 2)
         /\ events[j].e = "sleep" => (j % 2 = 0 /\ events[j].k = j \div 2)
    /\ cpc \in {"except", "returned"} =>
         /\ events[Len(events)].e = "attempt"
         /\ cpc = "except" => attempt = events[Len(events)].k
         /\ tried \in (IF HAS_OPENAI_SDK THEN {<<"sdk">>, <<"sdk", "http">>}
                        ELSE {<<"http">>})
         /\ Range(tried) \subseteq {t.via : t \in sent}
    /\ cpc = "except" =>
         /\ exc[1].kind = "Transport" <=> resp = << >>
         /\ exc[1].kind = "Transport" => tried[Len(tried)] = "http"
         /\ resp # << >> => Texts(ChoicesOrEmpty(resp[1])) = << >>
    /\ cpc = "returned" =>
         /\ resp # << >>
         /\ ret = JoinedReply(Texts(ChoicesOrEmpty(resp[1])))

C16_Witness ==
    /\ cpc = "returned"
    /\ HAS_OPENAI_SDK
    /\ tried = <<"sdk", "http">>
    /\ events = <<Event("attempt", 1, 0), Event("sleep", 1, SleepTime(backoff_factor, 1)),
                  Event("attempt", 2, 0)>>
    /\ backoff_factor > 0

\* C20 as stated: the string chat_completion returns is never empty.
C20_ReturnsNonEmpty ==
    cpc = "returned" => ret # << >>

\* C17: processed.json, which no run found with a duplicate, never holds an
\* identifier twice, and neither does the ledger in memory.
C17_NoDuplicateLedgerEntries ==
    /\ NoDuplicates(processed_file.data)
    /\ NoDuplicates(processed)

C17_Witness ==
    /\ pc = "done"
    /\ prev.ledger.exists /\ prev.ledger.data # << >>
    /\ Len(processed_file.data) > Len(prev.ledger.data)
    /\ \E n \in Range(pdfs) : status[n] = "SKIPPED_DONE"

\* the segments of s between its commas, in order: segment n lies between
\* the (n-1)-th and the n-th comma, the ends of s standing for the 0-th and
\* the last
Cuts(s) == {0, Len(s) + 1} \cup {k \in 1..Len(s) : s[k] = ","}

NthCut(s, n) == CHOOSE c \in Cuts(s) : Cardinality({d \in Cuts(s) : d < c}) = n - 1

Segment(s, n) == SubSeq(s, NthCut(s, n) + 1, NthCut(s, n + 1) - 1)

\* t is s without its leading and trailing whitespace
IsTrimOf(t, s) ==
    \E a, b \in 0..Len(s) :
        /\ a + b <= Len(s)
        /\ t = SubSeq(s, a + 1, Len(s) - b)
        /\ \A k \in 1..a : s[k] \in Whitespace
        /\ \A k \in (Len(s) - b + 1)..Len(s) : s[k] \in Whitespace
        /\ t # << >> => t[1] \notin Whitespace /\ t[Len(t)] \notin Whitespace

\* out lists the trimmed segments of s that are not empty, in order
IsRepairOf(out, s) ==
    LET n == Cardinality(Cuts(s)) - 1
        kept == {k \in 1..n : \E c \in Range(Segment(s, k)) : c \notin Whitespace}
    IN  /\ Len(out) = Cardinality(kept)
        /\ \A k \in kept :
              IsTrimOf(out[Cardinality({j \in kept : j <= k})], Segment(s, k))

\* C18: a reply that parses always yields a record; when the parsed object's
\* 'biases' is a string the record holds in its place the list of its
\* comma-separated segments, trimmed, without the empty ones, in order; when
\* 'biases' is absent or not a string the record is the object with its
\* filename set.
C18_BiasesRepaired ==
    [][(pc = "normalize" /\ Normalized(response).ok) =>
          LET data == Normalized(response).data
              name == pdfs[idx]
              named == SetItem(data, FILENAME, Str(name))
              record == results'[Len(results')]
          IN  /\ status'[name] = "DONE"
              /\ Len(results') = Len(results) + 1
              /\ SubSeq(results', 1, Len(results)) = results
              /\ IF BIASES \in DOMAIN data /\ data[BIASES].t = "str"
                 THEN /\ DOMAIN record = DOMAIN named
                      /\ \A k \in DOMAIN named \ {BIASES} : record[k] = named[k]
                      /\ record[BIASES].t = "list"
                      /\ IsRepairOf(record[BIASES].v, data[BIASES].v[1])
                 ELSE record = named]_vars

\* the reply {"biases":"x, y"} (or one with the same two segments) has
\* become a record whose biases are the list of x and y
C18_Witness ==
    /\ pc = "loop" /\ Len(results) = 1
    /\ BIASES \in DOMAIN results[1]
    /\ results[1][BIASES] = List(<< <<"x">>, <<"y">> >>)
    /\ results[1][FILENAME] = Str(PdfName(1))

=============================================================================
